---- MODULE Spec2Model ----
(***************************************************************************)
(* A model of hub-tag-delete.py: the script that reads deletion records    *)
(* (tag patterns with a deletion date) from a JSON file and a Markdown     *)
(* table, lists the tags of a Docker Hub repository, and deletes the tags  *)
(* that match a pattern of a record whose date has passed.                 *)
(*                                                                         *)
(* Text is a sequence of one-character strings, so that strip, split,      *)
(* startswith, fnmatch and strptime are computed as Python computes them.  *)
(***************************************************************************)
EXTENDS Integers, Sequences, FiniteSets, TLC

VARIABLES
    now,            \* module-level now = datetime.now(), <<ordinal, second of day>>
    clock,          \* the wall clock, which goes on while the script runs
    ticks,          \* how often the wall clock has advanced
    json_file,      \* config['json']['file']: a path, or NoFile
    md_file,        \* config['markdown']['file']: a path, or NoFile
    tag_column,     \* config['markdown']['tag_column']
    date_column,    \* config['markdown']['date_column']
    registry,       \* the set of tags the repository holds on Docker Hub
    registry0,      \* the registry at program start
    others,         \* how often another actor has changed the registry
    pc,             \* position of the script
    pass,           \* 1: tags_to_delete() called by main, 2: by delete_expired_tags()
    items,          \* tags_to_delete: the list get_tag_list() returned
    item_i,         \* tags_to_delete: index of the current item
    pat_i,          \* tags_to_delete: index of the current pattern of the item
    tags_list,      \* tags_to_delete: the results appended so far
    matching_tags,  \* tags_matching_pattern: matches so far
    next_page,      \* tags_matching_pattern: _next (a page number, 0 is None)
    main_tags,      \* main: _tags
    to_delete,      \* delete_expired_tags: the list it iterates over
    del_i,          \* delete_expired_tags: index of the current tag
    deleted,        \* delete_expired_tags: deleted
    output,         \* the lines printed
    outcome,        \* "running", "ok" (exit 0) or the name of the uncaught exception
    resp,           \* the last HTTP response received: [kind, status, body]
    failed,         \* some HTTP response so far was not 2xx
    listLog,        \* the first-page tag-list requests sent: <<pass, item, pattern>>
    delLog,         \* the DELETE requests sent: [tag, status]
    md_line,        \* parse_md_line: the argument of the call
    md_result       \* parse_md_line: what the call returned or raised

vars == <<now, clock, ticks, json_file, md_file, tag_column, date_column,
          registry, registry0, others, pc, pass, items, item_i, pat_i,
          tags_list, matching_tags, next_page, main_tags, to_delete, del_i,
          deleted, output, outcome, resp, failed, listLog, delLog,
          md_line, md_result>>

(***************************************************************************)
(* Bounds of the model.                                                    *)
(***************************************************************************)
\* tags per page the server returns (the script asks for 100)
PageLen == 1
\* how often the wall clock advances during a run
MaxTicks == 1
\* how often another actor changes the registry during a run
MaxOthers == 1

\* what os.environ.get returns for a variable that is not set
NoFile == "None"

(***************************************************************************)
(* Python's str methods on text.                                           *)
(***************************************************************************)
\* the character U+0060, which a TLA+ string cannot hold
Backtick == "backtick"

\* The characters str.strip() strips and \s of a regular expression matches
\* (str.isspace), each with its code point.  U+000B, U+001C to U+001F, U+0085
\* and U+00A0 stand in their strings as themselves; a TLA+ string cannot hold
\* a character above U+00FF, which is written "U+" and the hex digits of its
\* code point, four at least.
WhitespaceCodes == {
    <<"\t", 9>>, <<"\n", 10>>, <<"", 11>>, <<"\f", 12>>,
    <<"\r", 13>>, <<"", 28>>, <<"", 29>>, <<"", 30>>,
    <<"", 31>>, <<" ", 32>>, <<"", 133>>, <<" ", 160>>,
    <<"U+1680", 5760>>, <<"U+2000", 8192>>, <<"U+2001", 8193>>, <<"U+2002", 8194>>,
    <<"U+2003", 8195>>, <<"U+2004", 8196>>, <<"U+2005", 8197>>, <<"U+2006", 8198>>,
    <<"U+2007", 8199>>, <<"U+2008", 8200>>, <<"U+2009", 8201>>, <<"U+200A", 8202>>,
    <<"U+2028", 8232>>, <<"U+2029", 8233>>, <<"U+202F", 8239>>, <<"U+205F", 8287>>,
    <<"U+3000", 12288>> }

Whitespace == {p[1] : p \in WhitespaceCodes}

\* the characters U+0020 to U+007E in the order of their code points
Printable == <<
    " ", "!", "\"", "#", "$", "%", "&", "'", "(", ")", "*", "+",
    ",", "-", ".", "/", "0", "1", "2", "3", "4", "5", "6", "7",
    "8", "9", ":", ";", "<", "=", ">", "?", "@", "A", "B", "C",
    "D", "E", "F", "G", "H", "I", "J", "K", "L", "M", "N", "O",
    "P", "Q", "R", "S", "T", "U", "V", "W", "X", "Y", "Z", "[",
    "\\", "]", "^", "_", Backtick, "a", "b", "c", "d", "e", "f", "g",
    "h", "i", "j", "k", "l", "m", "n", "o", "p", "q", "r", "s",
    "t", "u", "v", "w", "x", "y", "z", "{", "|", "}", "~" >>

HexDigits == <<"0", "1", "2", "3", "4", "5", "6", "7", "8", "9",
               "A", "B", "C", "D", "E", "F">>

\* n in hex digits, width of them at least
RECURSIVE hex(_, _)
hex(n, width) ==
    IF n = 0 /\ width <= 0 THEN ""
    ELSE hex(n \div 16, width - 1) \o HexDigits[(n % 16) + 1]

\* chr(code) for U+0020 to U+007E and for code points above U+00FF
chr(code) ==
    IF code - 31 \in DOMAIN Printable THEN Printable[code - 31]
    ELSE "U+" \o hex(code, 4)

\* \d of a regular expression matches every decimal digit of Unicode
\* (category Nd), and int() takes each by its value.  The ten digits of a
\* script follow each other from its zero: the code points of the zeros.
DigitZeros == {
    48, 1632, 1776, 1984, 2406, 2534, 2662, 2790, 2918, 3046,
    3174, 3302, 3430, 3558, 3664, 3792, 3872, 4160, 4240, 6112,
    6160, 6470, 6608, 6784, 6800, 6992, 7088, 7232, 7248, 42528,
    43216, 43264, 43472, 43504, 43600, 44016, 65296, 66720, 68912, 69734,
    69872, 69942, 70096, 70384, 70736, 70864, 71248, 71360, 71472, 71904,
    72016, 72784, 73040, 73120, 92768, 92864, 93008, 120782, 120792, 120802,
    120812, 120822, 123200, 123632, 125264, 130032 }

DecimalDigits ==
    {[char |-> chr(zero + value), value |-> value, code |-> zero + value] :
        zero \in DigitZeros, value \in 0..9}

\* ord(c), by which Python orders characters
ord(c) ==
    IF \E i \in DOMAIN Printable : Printable[i] = c
    THEN 31 + (CHOOSE i \in DOMAIN Printable : Printable[i] = c)
    ELSE IF \E p \in WhitespaceCodes : p[1] = c
    THEN (CHOOSE p \in WhitespaceCodes : p[1] = c)[2]
    ELSE (CHOOSE d \in DecimalDigits : d.char = c).code

RECURSIVE lstrip(_)
lstrip(s) ==
    IF s # <<>> /\ Head(s) \in Whitespace THEN lstrip(Tail(s)) ELSE s

RECURSIVE rstrip(_)
rstrip(s) ==
    IF s # <<>> /\ s[Len(s)] \in Whitespace
    THEN rstrip(SubSeq(s, 1, Len(s) - 1))
    ELSE s

\* str.strip()
strip(s) == rstrip(lstrip(s))

\* str.startswith(prefix)
startswith(s, prefix) ==
    /\ Len(prefix) <= Len(s)
    /\ SubSeq(s, 1, Len(prefix)) = prefix

\* str.replace(ch, ''): every occurrence of the character removed
remove_char(s, ch) == SelectSeq(s, LAMBDA c : c # ch)

\* str.split(sep) for a one-character separator: the pieces between the
\* separators, empty pieces kept, so n separators give n + 1 pieces
RECURSIVE split_from(_, _, _)
split_from(s, sep, piece) ==
    IF s = <<>> THEN <<piece>>
    ELSE IF Head(s) = sep THEN <<piece>> \o split_from(Tail(s), sep, <<>>)
    ELSE split_from(Tail(s), sep, Append(piece, Head(s)))

split(s, sep) == split_from(s, sep, <<>>)

(***************************************************************************)
(* fnmatch.fnmatch(name, pat) on a POSIX system (normcase is the           *)
(* identity): fnmatch.translate turns the pattern into a regular           *)
(* expression, which must match the whole name.  '*' becomes any run of    *)
(* characters, '?' any one character, '[seq]' a character of seq, '[!seq]' *)
(* a character not of seq, a '[' that no ']' closes and every other        *)
(* character itself.  An index is the position of a character, from 1.     *)
(***************************************************************************)
\* an element of the translated pattern: STAR, or a set of characters given
\* by its single characters and its ranges, negated or not
STAR == [star |-> TRUE, neg |-> FALSE, chars |-> {}, ranges |-> {}]

char_set(neg, chars, ranges) ==
    [star |-> FALSE, neg |-> neg, chars |-> chars, ranges |-> ranges]

\* while j < n and pat[j] != ']': j = j+1
RECURSIVE scan_class(_, _)
scan_class(pat, j) ==
    IF j <= Len(pat) /\ pat[j] # "]" THEN scan_class(pat, j + 1) ELSE j

\* the index of the ']' that closes the class whose text starts at i, past
\* the end of pat when none does: a '!' first and a ']' after it are text
class_end(pat, i) ==
    LET j1 == IF i <= Len(pat) /\ pat[i] = "!" THEN i + 1 ELSE i
        j2 == IF j1 <= Len(pat) /\ pat[j1] = "]" THEN j1 + 1 ELSE j1
    IN scan_class(pat, j2)

\* pat.find('-', k, j): the first index from k and before j that holds a
\* hyphen, 0 when there is none
find_hyphen(pat, k, j) ==
    LET hyphens == {h \in k..(j - 1) : pat[h] = "-"} IN
    IF hyphens = {} THEN 0
    ELSE CHOOSE h \in hyphens : \A g \in hyphens : h <= g

\* the class text pat[i:j] cut at the hyphens that make a range: a chunk
\* ends with the low end of a range and the next starts with its high end
RECURSIVE split_chunks(_, _, _, _, _)
split_chunks(pat, i, k, j, chunks) ==
    LET h == find_hyphen(pat, k, j)
        chunk == SubSeq(pat, i, j - 1)
    IN
    IF h = 0
    THEN IF chunk # <<>> THEN Append(chunks, chunk)
         ELSE [chunks EXCEPT ![Len(chunks)] = Append(@, "-")]
    ELSE split_chunks(pat, h + 1, h + 3, j,
                      Append(chunks, SubSeq(pat, i, h - 1)))

\* "Remove empty ranges": a range whose low end is above its high end goes,
\* both ends with it, from the last range to the first
RECURSIVE remove_empty_ranges(_, _)
remove_empty_ranges(chunks, k) ==
    IF k < 2 THEN chunks
    ELSE IF ord(chunks[k - 1][Len(chunks[k - 1])]) > ord(chunks[k][1])
         THEN remove_empty_ranges(
                  SubSeq(chunks, 1, k - 2)
                  \o <<SubSeq(chunks[k - 1], 1, Len(chunks[k - 1]) - 1)
                       \o Tail(chunks[k])>>
                  \o SubSeq(chunks, k + 1, Len(chunks)),
                  k - 1)
         ELSE remove_empty_ranges(chunks, k - 1)

\* the chunks of the class text pat[i:j]
class_chunks(pat, i, j) ==
    LET stuff == SubSeq(pat, i, j - 1) IN
    IF \A x \in DOMAIN stuff : stuff[x] # "-" THEN <<stuff>>
    ELSE LET chunks == split_chunks(pat, i, IF pat[i] = "!" THEN i + 2 ELSE i + 1,
                                    j, <<>>)
         IN remove_empty_ranges(chunks, Len(chunks))

\* the set of characters '[' + stuff + ']' is compiled to, stuff being the
\* chunks joined by hyphens: a leading '!' negates, every other character
\* of a chunk is itself but the ends of the ranges.  No characters, not
\* negated, is '(?!)' and matches nothing; negated is '.', any character.
char_class(chunks) ==
    LET neg == chunks[1] # <<>> /\ chunks[1][1] = "!"
        body == IF neg THEN [chunks EXCEPT ![1] = Tail(@)] ELSE chunks
        n == Len(body)
        singles(k) ==
            LET lo == IF k > 1 THEN 2 ELSE 1
                hi == IF k < n THEN Len(body[k]) - 1 ELSE Len(body[k])
            IN {body[k][x] : x \in lo..hi}
    IN char_set(neg,
                UNION {singles(k) : k \in 1..n},
                {<<body[k - 1][Len(body[k - 1])], body[k][1]>> : k \in 2..n})

\* fnmatch.translate(pat): the loop over pat from index i, res the elements
\* added so far; consecutive '*' are compressed into one
RECURSIVE translate(_, _, _)
translate(pat, i, res) ==
    IF i > Len(pat) THEN res
    ELSE IF pat[i] = "*"
         THEN translate(pat, i + 1,
                        IF res # <<>> /\ res[Len(res)].star THEN res
                        ELSE Append(res, STAR))
    ELSE IF pat[i] = "?"
         THEN translate(pat, i + 1, Append(res, char_set(TRUE, {}, {})))
    ELSE IF pat[i] = "["
         THEN LET j == class_end(pat, i + 1) IN
              IF j > Len(pat)
              THEN translate(pat, i + 1, Append(res, char_set(FALSE, {"["}, {})))
              ELSE translate(pat, j + 1,
                             Append(res, char_class(class_chunks(pat, i + 1, j))))
    ELSE translate(pat, i + 1, Append(res, char_set(FALSE, {pat[i]}, {})))

\* the character c is one the set of characters matches
in_class(c, class) ==
    (\/ c \in class.chars
     \/ \E r \in class.ranges : ord(r[1]) <= ord(c) /\ ord(c) <= ord(r[2]))
    # class.neg

\* re.compile(res).match(name): the translated pattern matches all of name
RECURSIVE re_match(_, _)
re_match(name, res) ==
    IF res = <<>> THEN name = <<>>
    ELSE IF Head(res).star
         THEN \/ re_match(name, Tail(res))
              \/ name # <<>> /\ re_match(Tail(name), res)
    ELSE /\ name # <<>>
         /\ in_class(Head(name), Head(res))
         /\ re_match(Tail(name), Tail(res))

fnmatch(name, pat) == re_match(name, translate(pat, 1, <<>>))

(***************************************************************************)
(* datetime.strptime(date, '%B %d, %Y'), the default config['date_format'].*)
(* _strptime turns the format into the regular expression                  *)
(*   (january|...|december)\s+(3[0-1]|[1-2]\d|0[1-9]|[1-9]| [1-9]),\s+\d\d\d\d *)
(* matched ignoring case at the start of the string, raises ValueError     *)
(* when it does not match or text remains after the match, and raises      *)
(* ValueError when datetime(year, month, day) is no date.  The result is   *)
(* midnight of that day.  \s matches the characters of Whitespace and \d  *)
(* every decimal digit of Unicode.  A datetime is <<ordinal, second of the *)
(* day>>.                                                                  *)
(***************************************************************************)
UpperCase == <<"A", "B", "C", "D", "E", "F", "G", "H", "I", "J", "K", "L", "M",
               "N", "O", "P", "Q", "R", "S", "T", "U", "V", "W", "X", "Y", "Z">>
LowerCase == <<"a", "b", "c", "d", "e", "f", "g", "h", "i", "j", "k", "l", "m",
               "n", "o", "p", "q", "r", "s", "t", "u", "v", "w", "x", "y", "z">>

lower_char(c) ==
    IF \E i \in DOMAIN UpperCase : UpperCase[i] = c
    THEN LowerCase[CHOOSE i \in DOMAIN UpperCase : UpperCase[i] = c]
    ELSE c

lower(s) == [i \in DOMAIN s |-> lower_char(s[i])]

Digits == <<"0", "1", "2", "3", "4", "5", "6", "7", "8", "9">>

\* \d matches c
is_digit(c) == \E d \in DecimalDigits : d.char = c

\* int(c) of a decimal digit
digit_value(c) == (CHOOSE d \in DecimalDigits : d.char = c).value

\* \d* matches all of s
all_digits(s) == \A i \in DOMAIN s : is_digit(s[i])

\* (3[0-1]|[1-2]\d|0[1-9]|[1-9]| [1-9]) matches all of s, the digits the
\* pattern names being ASCII; what ' [1-9]' matches after \s+, [1-9] does
day_match(s) ==
    LET one_to_nine(c) == \E i \in 2..10 : Digits[i] = c IN
    \/ /\ Len(s) = 2
       /\ \/ s[1] = "3" /\ s[2] \in {"0", "1"}
          \/ s[1] \in {"1", "2"} /\ is_digit(s[2])
          \/ s[1] = "0" /\ one_to_nine(s[2])
    \/ Len(s) = 1 /\ one_to_nine(s[1])

\* int(s) of a text of digits
RECURSIVE int_of(_)
int_of(s) ==
    IF s = <<>> THEN 0
    ELSE 10 * int_of(SubSeq(s, 1, Len(s) - 1)) + digit_value(s[Len(s)])

MonthNames == <<
    <<"j", "a", "n", "u", "a", "r", "y">>,
    <<"f", "e", "b", "r", "u", "a", "r", "y">>,
    <<"m", "a", "r", "c", "h">>,
    <<"a", "p", "r", "i", "l">>,
    <<"m", "a", "y">>,
    <<"j", "u", "n", "e">>,
    <<"j", "u", "l", "y">>,
    <<"a", "u", "g", "u", "s", "t">>,
    <<"s", "e", "p", "t", "e", "m", "b", "e", "r">>,
    <<"o", "c", "t", "o", "b", "e", "r">>,
    <<"n", "o", "v", "e", "m", "b", "e", "r">>,
    <<"d", "e", "c", "e", "m", "b", "e", "r">>
>>

is_leap(y) == y % 4 = 0 /\ (y % 100 # 0 \/ y % 400 = 0)

days_in_month(y, m) ==
    IF m = 2 THEN (IF is_leap(y) THEN 29 ELSE 28)
    ELSE IF m \in {4, 6, 9, 11} THEN 30 ELSE 31

RECURSIVE days_before_month(_, _)
days_before_month(y, m) ==
    IF m = 1 THEN 0
    ELSE days_before_month(y, m - 1) + days_in_month(y, m - 1)

days_before_year(y) ==
    (y - 1) * 365 + ((y - 1) \div 4) - ((y - 1) \div 100) + ((y - 1) \div 400)

\* date.toordinal(): January 1 of year 1 is day 1
ymd2ord(y, m, d) == days_before_year(y) + days_before_month(y, m) + d

\* index of the first occurrence of ch in s, 0 when there is none
index_of(s, ch) ==
    IF \E i \in DOMAIN s : s[i] = ch
    THEN CHOOSE i \in DOMAIN s : s[i] = ch /\ \A j \in 1..(i - 1) : s[j] # ch
    ELSE 0

ValueError == [err |-> TRUE, dt |-> <<0, 0>>]

strptime(text) ==
    LET low == lower(text)
        months == {m \in DOMAIN MonthNames : startswith(low, MonthNames[m])}
    IN
    IF months = {} THEN ValueError
    ELSE
    LET month == CHOOSE m \in months : TRUE
        after_month == SubSeq(low, Len(MonthNames[month]) + 1, Len(low))
        day_on == lstrip(after_month)
        comma == index_of(day_on, ",")
        day_text == SubSeq(day_on, 1, comma - 1)
        after_comma == SubSeq(day_on, comma + 1, Len(day_on))
        year_text == lstrip(after_comma)
    IN
    IF \/ day_on = after_month          \* \s+ needs one whitespace at least
       \/ comma = 0
       \/ ~day_match(day_text)
       \/ year_text = after_comma
       \/ Len(year_text) # 4            \* \d\d\d\d, and nothing may remain
       \/ ~all_digits(year_text)
    THEN ValueError
    ELSE
    LET day == int_of(day_text)
        year == int_of(year_text)
    IN
    IF year < 1 \/ day > days_in_month(year, month) THEN ValueError
    ELSE [err |-> FALSE, dt |-> <<ymd2ord(year, month, day), 0>>]

\* a date that does not parse taken as the earliest date there is
parse_date_lenient(date) ==
    IF strptime(date).err THEN [err |-> FALSE, dt |-> <<1, 0>>]
    ELSE strptime(date)

\* parse_date(date)
parse_date(date) == strptime(date)

\* a >= b for datetimes
dt_ge(a, b) == a[1] > b[1] \/ (a[1] = b[1] /\ a[2] >= b[2])

(***************************************************************************)
(* The files of the model.  A JSON file is given by what json.load returns *)
(* for it, a Markdown file by what readlines() returns for it.             *)
(***************************************************************************)
JsonPaths == {"a.json", "b.json", "c.json"}

json_load(path) ==
    IF path = "a.json" THEN <<
        [tags |-> <<<<"1", ".", "[", "0", "-", "9", "]">>, <<"v", "1">>>>,
         date |-> <<"J", "a", "n", "u", "a", "r", "y", " ", "0", "1", ",", " ", "2", "0", "2", "0">>],
        [tags |-> <<<<"2", ".", "0">>>>,
         date |-> <<"D", "e", "c", "e", "m", "b", "e", "r", " ", "3", "1", ",", " ", "2", "0", "2", "1">>] >>
    ELSE IF path = "b.json" THEN <<
        [tags |-> <<<<" ", "v", "1">>, <<"v", "*">>>>,
         date |-> <<"m", "a", "r", "c", "h", " ", "5", ",", " ", "2", "0", "2", "1">>],
        [tags |-> <<<<"2", ".", "0">>>>,
         date |-> <<"M", "a", "r", "c", "h", " ", "0", "6", ",", " ", "2", "0", "2", "U+FF11">>] >>
    ELSE <<
        [tags |-> <<<<"v", "1">>>>,
         date |-> <<"J", "a", "n", "u", "a", "r", "y", " ", "0", "1", ",", " ", "2", "0", "2", "0">>],
        [tags |-> <<<<"*">>>>,
         date |-> <<"1", "3", "/", "4", "5", "/", "2", "0", "2", "4">>] >>

MdPaths == {"README.md", "BAD.md"}

readlines(path) ==
    IF path = "README.md" THEN <<
        <<"#", " ", "T", "a", "g", "s", "\n">>,
        <<"<", "!", "-", "-", " ", "B", "E", "G", "I", "N", " ", "d", "e", "l", "e", "t", "i", "o", "n", "_", "t", "a", "b", "l", "e", " ", "-", "-", ">", "\n">>,
        <<"|", " ", "T", "a", "g", " ", "|", " ", "D", "a", "t", "e", " ", "|", "\n">>,
        <<"|", "-", "-", "-", "|", "-", "-", "-", "|", "\n">>,
        <<"|", " ", Backtick, "2", ".", "*", Backtick, ",", " ", "1", ".", "0", " ", "|", " ", "M", "a", "r", "c", "h", " ", "0", "5", ",", " ", "2", "0", "2", "1", " ", "|", "\n">>,
        <<"<", "!", "-", "-", " ", "E", "N", "D", " ", "d", "e", "l", "e", "t", "i", "o", "n", "_", "t", "a", "b", "l", "e", " ", "-", "-", ">", "\n">>,
        <<"|", " ", "v", "1", " ", "|", " ", "J", "a", "n", "u", "a", "r", "y", " ", "0", "1", ",", " ", "2", "0", "2", "0", " ", "|", "\n">>
    >>
    ELSE <<
        <<"<", "!", "-", "-", " ", "B", "E", "G", "I", "N", " ", "d", "e", "l", "e", "t", "i", "o", "n", "_", "t", "a", "b", "l", "e", " ", "-", "-", ">", "\n">>,
        <<"|", " ", "T", "a", "g", " ", "|", " ", "D", "a", "t", "e", " ", "|", "\n">>,
        <<"|", "-", "-", "-", "|", "-", "-", "-", "|", "\n">>,
        <<"|", " ", "v", "1", "\n">>,
        <<"<", "!", "-", "-", " ", "E", "N", "D", " ", "d", "e", "l", "e", "t", "i", "o", "n", "_", "t", "a", "b", "l", "e", " ", "-", "-", ">", "\n">>
    >>

\* config['markdown']['begin_string'] and ['end_string'], the defaults
begin_string == <<"<", "!", "-", "-", " ", "B", "E", "G", "I", "N", " ", "d", "e", "l", "e", "t", "i", "o", "n", "_", "t", "a", "b", "l", "e", " ", "-", "-", ">">>
end_string == <<"<", "!", "-", "-", " ", "E", "N", "D", " ", "d", "e", "l", "e", "t", "i", "o", "n", "_", "t", "a", "b", "l", "e", " ", "-", "-", ">">>

(***************************************************************************)
(* The Markdown reader.                                                    *)
(***************************************************************************)
\* line_is_ignored(line)
line_is_ignored(line) ==
    startswith(line, begin_string) \/ startswith(line, end_string)

IndexError == [err |-> TRUE, tags |-> <<>>, date |-> <<>>]

\* parse_md_line(md_line): md[k] of the Python list is md[k + 1] here
parse_md_line(line) ==
    LET md == split(strip(line), "|") IN
    IF tag_column > Len(md) - 1 THEN IndexError
    ELSE IF date_column > Len(md) - 1 THEN IndexError
    ELSE [err |-> FALSE,
          tags |-> split(remove_char(strip(md[tag_column + 1]), Backtick), ","),
          date |-> strip(md[date_column + 1])]

\* the loop of get_readme_table over the lines that remain; the result is
\* [err, items], err when parse_md_line raised
RECURSIVE readme_rows(_, _, _, _)
readme_rows(lines, parsing, linenum, acc) ==
    IF lines = <<>> THEN [err |-> FALSE, items |-> acc]
    ELSE
    LET line == Head(lines)
        parsing1 == parsing \/ startswith(line, begin_string)
        is_row == /\ parsing1
                  /\ startswith(line, <<"|">>)
                  /\ ~line_is_ignored(line)
                  /\ strip(line) # <<>>
        linenum1 == IF is_row THEN linenum + 1 ELSE linenum
        parsed == parse_md_line(line)
        parsing2 == parsing1 /\ ~startswith(line, end_string)
    IN
    IF is_row /\ linenum1 > 2 /\ parsed.err
    THEN [err |-> TRUE, items |-> <<>>]
    ELSE readme_rows(Tail(lines), parsing2, linenum1,
                     IF is_row /\ linenum1 > 2
                     THEN Append(acc, [tags |-> parsed.tags, date |-> parsed.date])
                     ELSE acc)

\* get_readme_table()
get_readme_table == readme_rows(readlines(md_file), FALSE, 0, <<>>)

\* json_tags()
json_tags == json_load(json_file)

\* the two sources appended in the other order
get_tag_list_md_first ==
    LET from_json == IF json_file # NoFile THEN json_tags ELSE <<>>
        from_md == IF md_file # NoFile
                   THEN get_readme_table
                   ELSE [err |-> FALSE, items |-> <<>>]
    IN
    IF from_md.err THEN [err |-> TRUE, items |-> <<>>]
    ELSE [err |-> FALSE, items |-> from_md.items \o from_json]

\* get_tag_list(): the records of the JSON file, then those of the Markdown
\* table; [err, items], err when the Markdown reader raised IndexError
get_tag_list ==
    LET from_json == IF json_file # NoFile THEN json_tags ELSE <<>>
        from_md == IF md_file # NoFile
                   THEN get_readme_table
                   ELSE [err |-> FALSE, items |-> <<>>]
    IN
    IF from_md.err THEN [err |-> TRUE, items |-> <<>>]
    ELSE [err |-> FALSE, items |-> from_json \o from_md.items]

(***************************************************************************)
(* The registry, as the script sees it through the Docker Hub API.         *)
(***************************************************************************)
\* the tag names of the model, in the order 'ordering=name' lists them
TagOrder == <<<<"1", ".", "0">>,
              <<"2", ".", "0">>,
              <<"v", "1">>>>

TagNames == {TagOrder[i] : i \in DOMAIN TagOrder}

\* the tags of the repository in the order the server lists them
listing(reg) == SelectSeq(TagOrder, LAMBDA tag : tag \in reg)

\* resp['results'] of page n: the names of the tags on that page
page_results(reg, n) ==
    LET all == listing(reg)
        last == IF n * PageLen < Len(all) THEN n * PageLen ELSE Len(all)
    IN SubSeq(all, (n - 1) * PageLen + 1, last)

\* resp['next'] of page n: the page its link leads to, 0 for null
page_next(reg, n) == IF n * PageLen < Len(listing(reg)) THEN n + 1 ELSE 0

\* the statuses the server answers with
LoginStatuses == {200, 401}
FirstPageStatuses == {200, 500}
NextPageStatuses == {200, 404, 500}

\* to a DELETE: done, a server error, no such tag, or a 3xx that requests
\* does not follow (it has no Location) and hands to the caller as it is
DeleteStatuses(tag) ==
    IF tag \in registry THEN {204, 304, 500} ELSE {204, 304, 404}

\* the body of a response that is not 2xx: an error document without
\* 'results', or (the server is free) the document of a tag list
ErrorBodies == {"error", "listing"}

\* requests' Response.raise_for_status(): HTTPError for 4xx and 5xx
raise_for_status(status) == status >= 400 /\ status < 600

\* config['docker_hub']['organization'] and ['repository']
organization == <<"o", "r", "g">>
repository == <<"r", "e", "p", "o">>

\* the line main prints for a tag: f"> Deleted {img_tag}"
deleted_line(tag) ==
    <<">", " ", "D", "e", "l", "e", "t", "e", "d", " ">>
    \o organization \o <<"/">> \o repository \o <<":">> \o tag

no_tags_line == <<"T", "h", "e", "r", "e", " ", "a", "r", "e", " ", "n", "o", " ", "t", "a", "g", "s", " ", "t", "o", " ", "d", "e", "l", "e", "t", "e", ".">>

(***************************************************************************)
(* The state after the module-level code has run.                          *)
(***************************************************************************)
\* March 5, 2021 at midnight, and the second before it
Nows == {<<737854, 0>>, <<737853, 86399>>}

Registries == {{TagOrder[1], TagOrder[2], TagOrder[3]}, {TagOrder[1], TagOrder[3]}}

\* os.environ.get('MARKDOWN_TAG_COLUMN', 1) and ('MARKDOWN_DATE_COLUMN', 2)
DefaultTagColumn == 1
DefaultDateColumn == 2

NoResponse == [kind |-> "none", status |-> 0]
NotCalled == [called |-> FALSE, err |-> FALSE, tags |-> <<>>, date |-> <<>>]

RunInit ==
    /\ pc = "main"
    /\ pass = 1
    /\ items = <<>>
    /\ item_i = 1
    /\ pat_i = 1
    /\ tags_list = <<>>
    /\ matching_tags = <<>>
    /\ next_page = 0
    /\ main_tags = <<>>
    /\ to_delete = <<>>
    /\ del_i = 1
    /\ deleted = <<>>
    /\ output = <<>>
    /\ outcome = "running"
    /\ resp = NoResponse
    /\ failed = FALSE
    /\ listLog = <<>>
    /\ delLog = <<>>
    /\ ticks = 0
    /\ others = 0

Init ==
    /\ now \in Nows
    /\ clock = now
    /\ json_file \in JsonPaths \cup {NoFile}
    /\ md_file \in MdPaths \cup {NoFile}
    /\ tag_column = DefaultTagColumn
    /\ date_column = DefaultDateColumn
    /\ registry \in Registries
    /\ registry0 = registry
    /\ md_line = <<>>
    /\ md_result = NotCalled
    /\ RunInit

configVars == <<now, json_file, md_file, tag_column, date_column, registry0>>
mdVars == <<md_line, md_result>>
envVars == <<clock, ticks, others>>
passVars == <<pass, items, item_i, pat_i, tags_list, matching_tags, next_page>>
deleteVars == <<to_delete, del_i, deleted, delLog>>

(***************************************************************************)
(* The script.  An action is the code between two HTTP requests: the       *)
(* registry answers each request with a status of its choice.              *)
(***************************************************************************)
\* an uncaught exception ends the process
Raise(exc) ==
    /\ outcome' = exc
    /\ pc' = "done"

\* the response to the request just sent
Receive(kind, status) ==
    /\ resp' = [kind |-> kind, status |-> status]
    /\ failed' = (failed \/ status \notin 200..299)

\* tags_to_delete(), up to its loop: get_tag_list() is read once per call
StartPass(p) ==
    LET list == get_tag_list IN
    IF list.err
    THEN /\ Raise("IndexError")
         /\ UNCHANGED passVars
    ELSE /\ pass' = p
         /\ items' = list.items
         /\ item_i' = 1
         /\ pat_i' = 1
         /\ tags_list' = <<>>
         /\ pc' = "item"
         /\ UNCHANGED <<matching_tags, next_page, outcome>>

\* main: _tags = tags_to_delete()
Main ==
    /\ pc = "main"
    /\ StartPass(1)
    /\ UNCHANGED <<configVars, mdVars, envVars, registry, main_tags,
                   deleteVars, output, resp, failed, listLog>>

\* the test written as now > parse_date(item['date'])
is_due_strict(date) == dt_ge(now, date) /\ now # date

\* the test of tags_to_delete: now >= parse_date(item['date'])
is_due(date) == dt_ge(now, date)

\* tags_to_delete: one turn of 'for item in get_tag_list()'
NextItem ==
    /\ pc = "item"
    /\ item_i <= Len(items)
    /\ LET item == items[item_i]
           date == parse_date(item.date)
       IN
       IF date.err
       THEN /\ Raise("ValueError")
            /\ UNCHANGED <<item_i, pat_i>>
       ELSE IF is_due(date.dt) /\ item.tags # <<>>
       THEN /\ pc' = "token"
            /\ pat_i' = 1
            /\ UNCHANGED <<item_i, outcome>>
       ELSE /\ item_i' = item_i + 1
            /\ UNCHANGED <<pc, pat_i, outcome>>
    /\ UNCHANGED <<configVars, mdVars, envVars, registry, pass, items,
                   tags_list, matching_tags, next_page, main_tags,
                   deleteVars, output, resp, failed, listLog>>

\* docker_hub_token() as tags_matching_pattern calls it for its headers
Token ==
    /\ pc = "token"
    /\ \E status \in LoginStatuses :
          /\ Receive("login", status)
          /\ IF raise_for_status(status)
             THEN Raise("HTTPError")
             ELSE pc' = "list" /\ UNCHANGED outcome
    /\ UNCHANGED <<configVars, mdVars, envVars, registry, passVars, main_tags,
                   deleteVars, output, listLog>>

\* the pattern tags_to_delete passes to tags_matching_pattern
pattern == strip(items[item_i].tags[pat_i])

\* the names of a page that match the pattern, in the order of the page
matches(names) == SelectSeq(names, LAMBDA name : fnmatch(name, pattern))

\* tags_matching_pattern returns and tags_to_delete appends the result:
\* [none, tags], none when the function fell off its end
Return(result) ==
    /\ tags_list' = Append(tags_list, result)
    /\ IF pat_i < Len(items[item_i].tags)
       THEN /\ pat_i' = pat_i + 1
            /\ pc' = "token"
            /\ UNCHANGED item_i
       ELSE /\ pat_i' = 1
            /\ item_i' = item_i + 1
            /\ pc' = "item"

\* tags_matching_pattern: the body of page n is read, after the matches
\* 'sofar'; the loop goes on when the page has a next link
ReadPage(n, sofar) ==
    LET found == sofar \o matches(page_results(registry, n))
        link == page_next(registry, n)
    IN
    /\ matching_tags' = found
    /\ IF link # 0
       THEN /\ next_page' = link
            /\ pc' = "page"
            /\ UNCHANGED <<tags_list, item_i, pat_i>>
       ELSE /\ UNCHANGED next_page
            /\ Return([none |-> FALSE, tags |-> found])

\* tags_matching_pattern: the first GET; its status is not looked at
FirstPage ==
    /\ pc = "list"
    /\ \E status \in FirstPageStatuses, body \in {"listing"} \cup ErrorBodies :
          /\ status = 200 => body = "listing"
          /\ Receive("list", status)
          /\ listLog' = Append(listLog, [pass |-> pass, item |-> item_i,
                                         pattern |-> pattern])
          /\ IF body = "error"
             THEN /\ Raise("KeyError")
                  /\ UNCHANGED <<matching_tags, next_page, tags_list,
                                 item_i, pat_i>>
             ELSE /\ ReadPage(1, <<>>)
                  /\ UNCHANGED outcome
    /\ UNCHANGED <<configVars, mdVars, envVars, registry, pass, items,
                   main_tags, deleteVars, output>>

\* tags_matching_pattern: the GET of a next link
NextPage ==
    /\ pc = "page"
    /\ \E status \in NextPageStatuses :
          /\ Receive("next", status)
          /\ IF raise_for_status(status)
             THEN IF status = 404
                  THEN /\ Return([none |-> TRUE, tags |-> <<>>])
                       /\ UNCHANGED <<matching_tags, next_page, outcome>>
                  ELSE /\ Raise("HTTPError")
                       /\ UNCHANGED <<matching_tags, next_page, tags_list,
                                      item_i, pat_i>>
             ELSE /\ ReadPage(next_page, matching_tags)
                  /\ UNCHANGED outcome
    /\ UNCHANGED <<configVars, mdVars, envVars, registry, pass, items,
                   main_tags, deleteVars, output, listLog>>

\* [i for row in tags_list for i in row]
RECURSIVE flatten(_)
flatten(rows) ==
    IF rows = <<>> THEN <<>> ELSE Head(rows).tags \o flatten(Tail(rows))

\* tags_to_delete after its loop, and what its caller does with the list
FinishPass ==
    /\ pc = "item"
    /\ item_i > Len(items)
    /\ IF \E i \in DOMAIN tags_list : tags_list[i].none
       THEN /\ Raise("TypeError")
            /\ UNCHANGED <<main_tags, to_delete, del_i, output>>
       ELSE IF pass = 1
       THEN /\ main_tags' = flatten(tags_list)
            /\ IF flatten(tags_list) = <<>>
               THEN /\ output' = Append(output, no_tags_line)
                    /\ outcome' = "ok"
                    /\ pc' = "done"
               ELSE /\ pc' = "dtoken"
                    /\ UNCHANGED <<output, outcome>>
            /\ UNCHANGED <<to_delete, del_i>>
       ELSE /\ to_delete' = flatten(tags_list)
            /\ del_i' = 1
            /\ pc' = "delete"
            /\ UNCHANGED <<main_tags, output, outcome>>
    /\ UNCHANGED <<configVars, mdVars, envVars, registry, passVars, deleted,
                   delLog, resp, failed, listLog>>

\* delete_expired_tags: docker_hub_token() for its headers, then the call
\* of tags_to_delete()
DeleteToken ==
    /\ pc = "dtoken"
    /\ \E status \in LoginStatuses :
          /\ Receive("login", status)
          /\ IF raise_for_status(status)
             THEN Raise("HTTPError") /\ UNCHANGED passVars
             ELSE StartPass(2)
    /\ UNCHANGED <<configVars, mdVars, envVars, registry, main_tags,
                   deleteVars, output, listLog>>

\* delete_expired_tags: one turn of 'for tag in tags_to_delete()'
DeleteTag ==
    /\ pc = "delete"
    /\ del_i <= Len(to_delete)
    /\ LET tag == to_delete[del_i] IN
       \E status \in DeleteStatuses(tag) :
          /\ Receive("delete", status)
          /\ delLog' = Append(delLog, [tag |-> tag, status |-> status])
          /\ registry' = IF status \in 200..299 THEN registry \ {tag}
                                                 ELSE registry
          /\ IF raise_for_status(status)
             THEN /\ Raise("HTTPError")
                  /\ UNCHANGED <<deleted, del_i>>
             ELSE /\ deleted' = Append(deleted, tag)
                  /\ del_i' = del_i + 1
                  /\ UNCHANGED <<pc, outcome>>
    /\ UNCHANGED <<configVars, mdVars, envVars, passVars, main_tags,
                   to_delete, output, listLog>>

\* delete_expired_tags returns, and main prints a line for each of _tags
Report ==
    /\ pc = "delete"
    /\ del_i > Len(to_delete)
    /\ output' = output \o [i \in DOMAIN main_tags |-> deleted_line(main_tags[i])]
    /\ outcome' = "ok"
    /\ pc' = "done"
    /\ UNCHANGED <<configVars, mdVars, envVars, registry, passVars, main_tags,
                   deleteVars, resp, failed, listLog>>

\* time passes while the script runs: the wall clock reaches the next midnight
Tick ==
    /\ pc # "done"
    /\ ticks < MaxTicks
    /\ clock' = <<clock[1] + 1, 0>>
    /\ ticks' = ticks + 1
    /\ UNCHANGED <<configVars, mdVars, others, registry, passVars, main_tags,
                   deleteVars, output, resp, failed, listLog, pc, outcome>>

\* another user of the repository pushes or removes a tag
OtherActor ==
    /\ pc # "done"
    /\ others < MaxOthers
    /\ \E tag \in TagNames :
          registry' = IF tag \in registry THEN registry \ {tag}
                                          ELSE registry \cup {tag}
    /\ others' = others + 1
    /\ UNCHANGED <<configVars, mdVars, clock, ticks, passVars, main_tags,
                   deleteVars, output, resp, failed, listLog, pc, outcome>>

Next ==
    \/ Main
    \/ NextItem
    \/ Token
    \/ FirstPage
    \/ NextPage
    \/ FinishPass
    \/ DeleteToken
    \/ DeleteTag
    \/ Report
    \/ Tick

Spec == Init /\ [][Next]_vars

\* the script while other users of the repository are at work
NextConc == Next \/ OtherActor

SpecConc == Init /\ [][NextConc]_vars

(***************************************************************************)
(* parse_md_line on its own: a row and the two configured columns.         *)
(***************************************************************************)
\* the largest column index configured in the model
MaxColumn == 3

MdLines == {
    <<"|", " ", "a", " ", "|", " ", "b", " ", "|">>,
    <<"|", " ", "a", " ", "|", " ", "b">>,
    <<"|", " ", "a", " ", "|">>,
    <<"|", "a", "|", "b", "|", "c", "|">>,
    <<"|", " ", Backtick, "1", ".", "*", Backtick, ",", " ", "v", "1", " ", "|", " ", "M", "a", "r", "c", "h", " ", "0", "5", ",", " ", "2", "0", "2", "1", " ", "|", "\n">>,
    <<"|", " ", "a">>,
    <<"|", "|">>
}

InitMd ==
    /\ md_line \in MdLines
    /\ tag_column \in 1..MaxColumn
    /\ date_column \in 1..MaxColumn
    /\ md_result = NotCalled
    /\ now = <<737854, 0>>
    /\ clock = now
    /\ json_file = NoFile
    /\ md_file = NoFile
    /\ registry = {}
    /\ registry0 = {}
    /\ RunInit

\* items.append(parse_md_line(line)) of get_readme_table
ParseMdLine ==
    /\ ~md_result.called
    /\ LET row == parse_md_line(md_line) IN
       md_result' = [called |-> TRUE, err |-> row.err, tags |-> row.tags,
                     date |-> row.date]
    /\ UNCHANGED <<configVars, envVars, registry, passVars, main_tags,
                   deleteVars, output, resp, failed, listLog, pc, outcome,
                   md_line>>

NextMd == ParseMdLine

SpecMd == InitMd /\ [][NextMd]_vars

(***************************************************************************)
(* What the properties below speak of.                                     *)
(***************************************************************************)
Last(seq) == seq[Len(seq)]

\* a response that is not 2xx
NotOk(status) == status \notin 200..299

\* the tags of the DELETE requests sent, in the order they were sent
DeleteRequests == [k \in DOMAIN delLog |-> delLog[k].tag]

\* the tags of the DELETE requests that succeeded, in that order
RECURSIVE succeeded(_)
succeeded(log) ==
    IF log = <<>> THEN <<>>
    ELSE IF NotOk(Head(log).status) THEN succeeded(Tail(log))
    ELSE <<Head(log).tag>> \o succeeded(Tail(log))

\* a is b with some of its elements left out
RECURSIVE is_subseq(_, _)
is_subseq(a, b) ==
    IF a = <<>> THEN TRUE
    ELSE IF b = <<>> THEN FALSE
    ELSE IF Head(a) = Head(b) THEN is_subseq(Tail(a), Tail(b))
    ELSE is_subseq(a, Tail(b))

\* the combined list: the records of the JSON file, then those of the table
CombinedList ==
    (IF json_file # NoFile THEN json_load(json_file) ELSE <<>>)
    \o (IF md_file # NoFile THEN get_readme_table.items ELSE <<>>)

\* the files can be read: the Markdown reader raises no IndexError
Readable == md_file = NoFile \/ ~get_readme_table.err

Malformed(rec) == strptime(rec.date).err

\* a record whose date is now or earlier
DueRecord(rec) ==
    /\ ~Malformed(rec)
    /\ LET date == strptime(rec.date).dt IN
       \/ now[1] > date[1]
       \/ now[1] = date[1] /\ now[2] >= date[2]

\* the patterns of the due records among the first n of the combined list,
\* each with the position of its record, in the order of the list
RECURSIVE DuePatterns(_, _)
DuePatterns(n, p) ==
    IF n = 0 THEN <<>>
    ELSE DuePatterns(n - 1, p)
         \o (IF DueRecord(CombinedList[n])
             THEN [k \in DOMAIN CombinedList[n].tags |->
                     [pass |-> p, item |-> n,
                      pattern |-> strip(CombinedList[n].tags[k])]]
             ELSE <<>>)

\* the tag-list requests of pass p
ListRequests(p) == SelectSeq(listLog, LAMBDA e : e.pass = p)

\* a pattern as it is matched: stripped of surrounding whitespace when
\* 'trimmed', as written in its record otherwise
Trim(pat, trimmed) == IF trimmed THEN strip(pat) ELSE pat

\* the matched sequence: over the due records of the combined list, over
\* the patterns of each, the live tags that match, in the server's order
RECURSIVE OverPatterns(_, _, _)
OverPatterns(pats, live, trimmed) ==
    IF pats = <<>> THEN <<>>
    ELSE SelectSeq(live, LAMBDA name : fnmatch(name, Trim(Head(pats), trimmed)))
         \o OverPatterns(Tail(pats), live, trimmed)

RECURSIVE OverRecords(_, _, _)
OverRecords(recs, live, trimmed) ==
    IF recs = <<>> THEN <<>>
    ELSE (IF DueRecord(Head(recs))
          THEN OverPatterns(Head(recs).tags, live, trimmed)
          ELSE <<>>)
         \o OverRecords(Tail(recs), live, trimmed)

MatchedSequence == OverRecords(CombinedList, listing(registry0), TRUE)
MatchedAsWritten == OverRecords(CombinedList, listing(registry0), FALSE)

\* the run is over and nothing went wrong in it
CleanRun == pc = "done" /\ outcome = "ok" /\ ~failed

(***************************************************************************)
(* The properties.                                                         *)
(***************************************************************************)
\* C1: a 404 on a followed next link is the normal end of the pagination:
\* tags_matching_pattern then returns the matches of the pages read before
\* the 404, no error is raised for it, and the run goes on with that result.
C1_NotFoundEndsPagination ==
    (resp.kind = "next" /\ resp.status = 404) =>
        /\ tags_list # <<>>
        /\ ~Last(tags_list).none
        /\ Last(tags_list).tags = matching_tags
        /\ outcome # "TypeError"

\* C2: deletion stops at the first failure: the DELETE requests sent are
\* the matched tags in order, and once a DELETE is answered with a status
\* that is not 2xx no further DELETE is sent, the tags deleted before it
\* stay deleted, and the process has ended with the HTTP error.
C2_AbortOnFirstFailure ==
    \A k \in DOMAIN delLog :
        /\ k <= Len(to_delete)
        /\ delLog[k].tag = to_delete[k]
        /\ NotOk(delLog[k].status) =>
              /\ k = Len(delLog)
              /\ pc = "done"
              /\ outcome = "HTTPError"
              /\ \A j \in 1..(k - 1) :
                    /\ ~NotOk(delLog[j].status)
                    /\ delLog[j].tag \notin registry

\* C3: a record is due if and only if now >= its date, the date equal to
\* now included, with the one now of the program start whatever the wall
\* clock has become: tag lists are requested and tags deleted for due
\* records only, and whenever the loop of a matching pass stands between
\* two records or has ended, the tag lists requested in the pass are those
\* of all patterns of all due records passed, in order.
C3_DueIffNowNotBeforeDate ==
    (Readable /\ pc # "main") =>
        /\ \A k \in DOMAIN listLog :
              /\ listLog[k].item \in DOMAIN CombinedList
              /\ DueRecord(CombinedList[listLog[k].item])
        /\ \A k \in DOMAIN delLog :
              \E i \in DOMAIN CombinedList :
                 /\ DueRecord(CombinedList[i])
                 /\ \E p \in DOMAIN CombinedList[i].tags :
                       fnmatch(delLog[k].tag, strip(CombinedList[i].tags[p]))
        /\ pc \in {"item", "dtoken", "delete"} =>
              ListRequests(pass) = DuePatterns(item_i - 1, pass)
        /\ pass = 2 => ListRequests(1) = DuePatterns(Len(CombinedList), 1)

\* the second pass has ended; a record dated exactly now had its tag list
\* requested, and a record dated after now but not after the wall clock,
\* which went on during the run, had not
C3_Witness ==
    /\ pc = "delete"
    /\ clock # now
    /\ \E i, j \in DOMAIN CombinedList :
          /\ ~Malformed(CombinedList[i])
          /\ ~Malformed(CombinedList[j])
          /\ strptime(CombinedList[i].date).dt = now
          /\ \E k \in DOMAIN listLog :
                listLog[k].pass = 2 /\ listLog[k].item = i
          /\ ~DueRecord(CombinedList[j])
          /\ dt_ge(clock, strptime(CombinedList[j].date).dt)
          /\ \A k \in DOMAIN listLog : listLog[k].item # j

\* some record of the combined list has a date that does not parse
HasMalformed ==
    /\ Readable
    /\ \E i \in DOMAIN CombinedList : Malformed(CombinedList[i])

\* C4: when the date of some record of the combined list does not match
\* the date format, no DELETE request is sent at any point of the run, and
\* the run ends with the date parse error (ValueError), or with the error
\* of a request that failed before the loop reached that record.
C4_MalformedDateAborts ==
    HasMalformed =>
        /\ delLog = <<>>
        /\ pc \notin {"dtoken", "delete"}
        /\ pc = "done" =>
              \/ outcome = "ValueError"
              \/ outcome \in {"HTTPError", "KeyError"} /\ NotOk(resp.status)

\* the run ended with the date parse error at a record that follows a due
\* record whose pattern matched a live tag
C4_Witness ==
    /\ pc = "done"
    /\ outcome = "ValueError"
    /\ delLog = <<>>
    /\ ~failed
    /\ Malformed(items[item_i])
    /\ \E i \in 1..(item_i - 1) : DueRecord(items[i])
    /\ \E k \in DOMAIN tags_list : tags_list[k].tags # <<>>

\* C5: every DELETE that succeeded is reported with its line
\* "> Deleted org/repo:tag", also when a later DELETE of the run failed.
C5_EverySuccessfulDeleteReported ==
    pc = "done" =>
        \A k \in DOMAIN delLog :
            ~NotOk(delLog[k].status) =>
                \E i \in DOMAIN output : output[i] = deleted_line(delLog[k].tag)

\* C6 as stated: in a run that ends in success with no request failed,
\* the DELETE requests sent are the matched sequence, each pattern matched
\* as it is written in its record.
C6_DeletesAreMatchedAsWritten ==
    CleanRun => DeleteRequests = MatchedAsWritten

\* C6 amended: while no request has failed, the DELETE requests sent are
\* the beginning of the matched sequence, and at the end of a successful
\* run in which none failed they are the whole of it: over the due records of the
\* combined list (JSON records first), over the patterns of each in order,
\* the live tags that match the pattern stripped of surrounding
\* whitespace, in the server's order, duplicates kept.
C6_DeletesAreMatchedSequence ==
    /\ ~failed =>
          /\ Len(delLog) <= Len(MatchedSequence)
          /\ DeleteRequests = SubSeq(MatchedSequence, 1, Len(delLog))
    /\ CleanRun => DeleteRequests = MatchedSequence

\* a run of both sources ended with nothing failed and a tag deleted twice
C6_Witness ==
    /\ CleanRun
    /\ json_file # NoFile
    /\ md_file # NoFile
    /\ Len(delLog) >= 3
    /\ \E j, k \in DOMAIN delLog : j < k /\ delLog[j].tag = delLog[k].tag
    /\ MatchedSequence # MatchedAsWritten

\* C7: a repeated DELETE of a tag the run has already deleted, answered
\* with 404, does not abort the run.
C7_RepeatedDeleteTolerated ==
    \A k \in DOMAIN delLog :
        (/\ delLog[k].status = 404
         /\ \E j \in 1..(k - 1) :
               delLog[j].tag = delLog[k].tag /\ ~NotOk(delLog[j].status))
        => ~(k = Len(delLog) /\ pc = "done" /\ outcome = "HTTPError")

\* the cells of a table row: the pieces between its pipes, the empty piece
\* after a trailing pipe not being one
cell_count(line) ==
    LET row == strip(line)
        pipes == Len(SelectSeq(row, LAMBDA c : c = "|"))
    IN IF row # <<>> /\ row[Len(row)] = "|" THEN pipes - 1 ELSE pipes

\* C8: parse_md_line fails with the column range error whenever the tag
\* column or the date column is greater than the number of cells of the row.
C8_ColumnBeyondRowFails ==
    md_result.called =>
        ((tag_column > cell_count(md_line) \/ date_column > cell_count(md_line))
            => md_result.err)

\* C9: a response to a tag-list request that is not 2xx, on the first page
\* or on a followed one, a 404 on a next link excepted, ends the run at
\* once with the HTTP error.
C9_ListErrorSurfaces ==
    (/\ resp.kind \in {"list", "next"}
     /\ NotOk(resp.status)
     /\ ~(resp.kind = "next" /\ resp.status = 404))
    => (pc = "done" /\ outcome = "HTTPError")

\* C10: the lines "> Deleted org/repo:tag" printed name tags whose DELETE
\* of this run succeeded, in the order of those requests.
C10_PrintedLinesNameDeletedTags ==
    is_subseq(SelectSeq(output, LAMBDA line : line # no_tags_line),
              [k \in DOMAIN succeeded(delLog) |->
                  deleted_line(succeeded(delLog)[k])])

====
